---- MODULE Spec2Model ----
(***************************************************************************)
(* Account ledger, transaction recorder and referral registration of the  *)
(* shop bot (src/shop_bot/data_manager/database.py), as a state machine.  *)
(*                                                                         *)
(* The store is one SQLite file opened in Python's default mode: every    *)
(* function opens its own connection, a SELECT runs in autocommit, the    *)
(* first INSERT/UPDATE of a connection opens a transaction that takes the *)
(* database's single write lock, and commit publishes the connection's    *)
(* private image.  A connection that finds the write lock taken waits in  *)
(* the busy handler and, when the wait times out, raises sqlite3.Error,   *)
(* which every function catches.                                          *)
(*                                                                         *)
(* Money is counted in whole units.                                       *)
(***************************************************************************)
EXTENDS Integers, Sequences, FiniteSets, TLC

\* ------------------------------------------------------------- bounds
NumProcs == 2
MaxCalls == 3
MaxBal == 3
MaxAmt == 2
MaxFrameCalls == 2

\* default_settings: "referral_on_start_referrer_amount": "20"
referral_on_start_referrer_amount == 20

Procs == 1..NumProcs
UserIds == {1, 2}
PaymentIds == {"P1", "P2"}
Usernames == {"ann", "bob"}
\* Ids a caller may name as referrer: the users, and one id that never registers.
ReferrerIds == UserIds \cup {3}

\* An optional value (Python None / SQL NULL, or a value).
None == <<>>
Some(x) == <<x>>

CreditAmounts == ((-1)..MaxAmt) \ {0}
AdjustDeltas == {-MaxAmt, 1}
DebitAmounts == (-1)..MaxAmt
SetValues == {0, MaxAmt}
RewardAmounts == {1, MaxAmt}
TonAmounts == {1, 2}
LogStatuses == {"pending", "failed", "success"}
TxIdArgs == {None, Some(1)}
ReferrerArgs == {None} \cup {Some(r) : r \in ReferrerIds}

\* A metadata dict with one entry: its key is a Python str or int.
MetaDicts == {[kt |-> "str", k |-> "host"], [kt |-> "int", k |-> "7"]}
NoMeta == [kt |-> "str", k |-> ""]
\* json.dumps writes every key as a JSON string; json.loads reads it as str.
JsonDumps(m) == [k |-> m.k]
JsonLoads_Empty(t) == NoMeta
JsonLoads(t) == [kt |-> "str", k |-> t.k]
\* A metadata text a caller of log_transaction passes as is.
NoText == [k |-> ""]

\* ------------------------------------------------------------- rows
NoRow ==
  [present |-> FALSE, username |-> "", balance |-> 0, referral_balance |-> 0,
   referral_balance_all |-> 0, referred_by |-> None, total_spent |-> 0,
   total_months |-> 0, trial_used |-> FALSE, agreed_to_terms |-> FALSE,
   is_banned |-> FALSE, referral_start_bonus_received |-> FALSE]

NewUserRow(username, referrer_id) ==
  [NoRow EXCEPT !.present = TRUE, !.username = username, !.referred_by = referrer_id]

Account(b, r) ==
  [NoRow EXCEPT !.present = TRUE, !.username = "ann", !.balance = b, !.referral_balance = r]

TxRow(id, username, payment_id, user_id, status, amount_rub, amount_currency, currency_name, payment_method, metadata) ==
  [transaction_id |-> id, username |-> username, payment_id |-> payment_id,
   user_id |-> user_id, status |-> status, amount_rub |-> amount_rub,
   amount_currency |-> amount_currency, currency_name |-> currency_name,
   payment_method |-> payment_method, metadata |-> metadata]

\* ------------------------------------------------------------- calls
NoCall ==
  [op |-> "none", u |-> 0, amt |-> 0, pid |-> None, ref |-> None, name |-> "",
   status |-> "", meta |-> NoMeta, txid |-> None, conc |-> {}, after |-> {}, obs |-> 0]

NoLoc == [rowcount |-> 0, meta |-> NoText, ref |-> None, lastrowid |-> 0]

\* Return values: True/False, None, an int, a dict.
RetBool(b) == [k |-> "bool", b |-> b, n |-> 0, m |-> NoMeta]
RetNone == [k |-> "none", b |-> FALSE, n |-> 0, m |-> NoMeta]
RetInt(n) == [k |-> "int", b |-> FALSE, n |-> n, m |-> NoMeta]
RetDict(m) == [k |-> "dict", b |-> FALSE, n |-> 0, m |-> m]

RetRow(row) == [k |-> "row", b |-> FALSE, n |-> 0, m |-> NoMeta, row |-> row]

VARIABLES
  users,          \* committed users table: telegram_id -> row
  transactions,   \* committed transactions table: a set of rows
  wusers,         \* the open write transaction's image of users
  wtransactions,  \* the open write transaction's image of transactions
  lock,           \* the process whose connection holds the write lock, or 0
  pc,             \* each process's position
  call,           \* each process's current call and its arguments
  loc,            \* each process's local variables
  res,            \* each process's last returned call and what it returned
  ncalls          \* the number of calls made so far

vars == <<users, transactions, wusers, wtransactions, lock, pc, call, loc, res, ncalls>>
db == <<users, transactions, wusers, wtransactions, lock>>

\* ------------------------------------------------------------- SQL
BalanceOf_Default(tbl, u) == IF tbl[u].present THEN tbl[u].balance ELSE MaxBal
BalanceOf(tbl, u) == IF tbl[u].present THEN tbl[u].balance ELSE 0
ReferralBalanceOf(tbl, u) == IF tbl[u].present THEN tbl[u].referral_balance ELSE 0
RowCount_Always(tbl, u) == 1
RowCount(tbl, u) == IF tbl[u].present THEN 1 ELSE 0

\* UPDATE users SET balance = balance + ? WHERE telegram_id = ?
SqlAddBalance_Overwrite(tbl, u, a) ==
  IF tbl[u].present THEN [tbl EXCEPT ![u].balance = a] ELSE tbl
SqlAddBalance(tbl, u, a) ==
  IF tbl[u].present THEN [tbl EXCEPT ![u].balance = @ + a] ELSE tbl

\* UPDATE users SET balance = ? WHERE telegram_id = ?
SqlSetBalance_NoWhere(tbl, u, value) ==
  [w \in UserIds |-> IF tbl[w].present THEN [tbl[w] EXCEPT !.balance = value] ELSE tbl[w]]
SqlSetBalance(tbl, u, value) ==
  IF tbl[u].present THEN [tbl EXCEPT ![u].balance = value] ELSE tbl

\* UPDATE users SET referral_balance = referral_balance + ? WHERE telegram_id = ?
SqlAddReferralBalance(tbl, u, a) ==
  IF tbl[u].present THEN [tbl EXCEPT ![u].referral_balance = @ + a] ELSE tbl

\* UPDATE users SET referral_balance_all = ? WHERE telegram_id = ?
SqlSetReferralBalanceAll(tbl, u, value) ==
  IF tbl[u].present THEN [tbl EXCEPT ![u].referral_balance_all = value] ELSE tbl

\* UPDATE users SET referral_balance_all = referral_balance_all + ? WHERE telegram_id = ?
SqlAddReferralBalanceAll(tbl, u, a) ==
  IF tbl[u].present THEN [tbl EXCEPT ![u].referral_balance_all = @ + a] ELSE tbl

\* UPDATE users SET referral_start_bonus_received = 1 WHERE telegram_id = ?
SqlSetStartBonusReceived_Noop(tbl, u) == tbl
SqlSetStartBonusReceived(tbl, u) ==
  IF tbl[u].present THEN [tbl EXCEPT ![u].referral_start_bonus_received = TRUE] ELSE tbl

\* UPDATE users SET total_spent = total_spent + ?, total_months = total_months + ?
\* WHERE telegram_id = ?
SqlUpdateUserStats(tbl, u, amount_spent, months_purchased) ==
  IF tbl[u].present
  THEN [tbl EXCEPT ![u].total_spent = @ + amount_spent, ![u].total_months = @ + months_purchased]
  ELSE tbl

\* UPDATE users SET is_banned = ? WHERE telegram_id = ?   (1: ban_user, 0: unban_user)
SqlSetBanned(tbl, u, banned) ==
  IF tbl[u].present THEN [tbl EXCEPT ![u].is_banned = banned] ELSE tbl

\* DELETE FROM vpn_keys WHERE user_id = ?  -- what it does to the users table:
\* nothing (vpn_keys.user_id is a plain column, no foreign key).
SqlDeleteUserKeys_Users(tbl, u) == [tbl EXCEPT ![u] = NoRow]
SqlDeleteUserKeys(tbl, u) == tbl

\* ---- transactions: payment_id TEXT UNIQUE NOT NULL,
\* ---- transaction_id INTEGER PRIMARY KEY AUTOINCREMENT
PidExists(tbl, pid) == \E r \in tbl : r.payment_id = pid
TxIdExists(tbl, id) == \E r \in tbl : r.transaction_id = id
MaxTxId(tbl) ==
  IF tbl = {} THEN 0
  ELSE CHOOSE n \in {r.transaction_id : r \in tbl} : \A r \in tbl : r.transaction_id <= n
\* The rowid an INSERT gets: the explicit one, or the next AUTOINCREMENT value
\* (no row is ever deleted, so that is one past the largest).
InsertId(tbl, txid) == IF txid = None THEN MaxTxId(tbl) + 1 ELSE txid[1]
\* The INSERT passes the table's constraints (otherwise sqlite3.IntegrityError).
InsertAllowed_NoUnique(tbl, txid, pid) ==
  /\ pid # None
  /\ txid # None => ~TxIdExists(tbl, txid[1])
InsertAllowed(tbl, txid, pid) ==
  /\ pid # None
  /\ ~PidExists(tbl, pid[1])
  /\ txid # None => ~TxIdExists(tbl, txid[1])

\* INSERT INTO transactions (payment_id, user_id, status, amount_rub, metadata)
\* VALUES (?, ?, 'pending', ?, json.dumps(metadata))
SqlInsertPending(tbl, pid, u, amount_rub, metadata) ==
  tbl \cup {TxRow(InsertId(tbl, None), None, pid[1], u, "pending", amount_rub,
                  None, None, None, JsonDumps(metadata))}

\* INSERT INTO transactions (username, transaction_id, payment_id, user_id, status,
\* amount_rub, amount_currency, currency_name, payment_method, metadata, created_date)
SqlInsertLogged(tbl, username, txid, pid, u, status, amount_rub, amount_currency, currency_name, payment_method, metadata) ==
  tbl \cup {TxRow(InsertId(tbl, txid), username, pid[1], u, status, amount_rub,
                  amount_currency, currency_name, payment_method, metadata)}

\* SELECT * FROM transactions WHERE payment_id = ? AND status = 'pending'
SelectPending_AnyStatus(tbl, pid) == {r \in tbl : r.payment_id = pid}
SelectPending(tbl, pid) == {r \in tbl : r.payment_id = pid /\ r.status = "pending"}

\* UPDATE transactions SET status = 'paid', amount_currency = ?,
\* currency_name = 'TON', payment_method = 'TON' WHERE payment_id = ?
SqlCompleteTon_NoWhere(tbl, pid, amount_ton) ==
  {[r EXCEPT !.status = "paid", !.amount_currency = Some(amount_ton),
             !.currency_name = Some("TON"), !.payment_method = Some("TON")] : r \in tbl}
SqlCompleteTon(tbl, pid, amount_ton) ==
  {IF r.payment_id = pid
   THEN [r EXCEPT !.status = "paid", !.amount_currency = Some(amount_ton),
                  !.currency_name = Some("TON"), !.payment_method = Some("TON")]
   ELSE r : r \in tbl}

\* A record with this payment_id exists and is no longer pending.
Resolved(tbl, pid) == \E r \in tbl : r.payment_id = pid /\ r.status # "pending"
ObsResolved(tbl, pid) == IF pid # None /\ Resolved(tbl, pid[1]) THEN 1 ELSE 0

\* register_user_if_not_exists, existing user: "if referrer_id and (current_ref is
\* None or str(current_ref).strip() == "") and int(referrer_id) != int(telegram_id)"
ShouldBackfill(referrer_id, current_ref, telegram_id) ==
  /\ referrer_id # None
  /\ current_ref = None
  /\ referrer_id[1] # telegram_id

\* INSERT INTO users (telegram_id, username, registration_date, referred_by)
SqlInsertUser_NoReferrer(tbl, u, username, referrer_id) ==
  [tbl EXCEPT ![u] = NewUserRow(username, None)]
SqlInsertUser(tbl, u, username, referrer_id) ==
  [tbl EXCEPT ![u] = NewUserRow(username, referrer_id)]

\* UPDATE users SET username = ? WHERE telegram_id = ?
SqlSetUsername_Replace(tbl, u, username) ==
  IF tbl[u].present THEN [tbl EXCEPT ![u] = NewUserRow(username, tbl[u].referred_by)] ELSE tbl
SqlSetUsername(tbl, u, username) ==
  IF tbl[u].present THEN [tbl EXCEPT ![u].username = username] ELSE tbl

\* UPDATE users SET referred_by = ? WHERE telegram_id = ?
SqlSetReferredBy(tbl, u, referrer) ==
  IF tbl[u].present THEN [tbl EXCEPT ![u].referred_by = Some(referrer)] ELSE tbl

\* The debit's first test: "if amount <= 0: return True".
NonPositive_Negative(amount) == amount < 0
NonPositive(amount) == amount <= 0

\* The debit's test: "if current < amount: rollback, return False".
Sufficient(current, amount) == ~(current < amount)

\* ------------------------------------------------------------- steps
MkCall(op, u, a) == [NoCall EXCEPT !.op = op, !.u = u, !.amt = a]

NoRes == [c |-> NoCall, ret |-> RetNone]
Running == {q \in Procs : pc[q] # "idle"}

\* A handler calls a function.  conc records which handlers' calls overlap in
\* time with this one: those running now (after: the call started after theirs),
\* and those that start before it returns.  The caller's previous result is
\* dropped.
Invoke(p, c) ==
  /\ pc[p] = "idle"
  /\ ncalls < MaxCalls
  /\ ncalls' = ncalls + 1
  /\ pc' = [pc EXCEPT ![p] = c.op]
  /\ call' = [q \in Procs |->
               IF q = p THEN [c EXCEPT !.conc = Running, !.after = Running]
               ELSE IF q \in Running THEN [call[q] EXCEPT !.conc = @ \cup {p}]
               ELSE call[q]]
  /\ res' = [q \in Procs |->
              IF q = p THEN NoRes
              ELSE [res[q] EXCEPT !.c.conc = @ \ {p}, !.c.after = @ \ {p}]]
  /\ UNCHANGED <<db, loc>>

Return(p, r) ==
  /\ pc' = [pc EXCEPT ![p] = "idle"]
  /\ res' = [res EXCEPT ![p] = [c |-> call[p], ret |-> r]]
  /\ call' = [call EXCEPT ![p] = NoCall]
  /\ loc' = [loc EXCEPT ![p] = NoLoc]
  /\ UNCHANGED ncalls

Goto(p, l) == pc' = [pc EXCEPT ![p] = l]

\* The write lock can be taken: no other connection holds it.
LockFree_NoWait(p) == TRUE
LockFree(p) == lock = 0

\* The write lock is held by another connection until the busy timeout ends:
\* sqlite3.OperationalError("database is locked"), nothing written.
Timeout_HalfApplied(p, r) ==
  /\ lock # 0 /\ lock # p
  /\ Return(p, r)
  /\ users' = SqlAddBalance(users, call[p].u, -call[p].amt)
  /\ UNCHANGED <<transactions, wusers, wtransactions, lock>>
Timeout(p, r) ==
  /\ lock # 0 /\ lock # p
  /\ Return(p, r)
  /\ UNCHANGED db

\* The connection's first write: it takes the write lock and works on its image.
ExecWrite(p, nu, nt, next) ==
  /\ LockFree(p)
  /\ lock' = p
  /\ wusers' = nu
  /\ wtransactions' = nt
  /\ Goto(p, next)
  /\ UNCHANGED <<users, transactions, call, res, ncalls>>

\* conn.commit(): the image becomes the committed state, the lock is released.
Commit ==
  /\ users' = wusers
  /\ transactions' = wtransactions
  /\ lock' = 0
  /\ UNCHANGED <<wusers, wtransactions>>

\* ------------------------------------------------------------- balance operations
add_to_balance(p) ==
  \/ \E u \in UserIds, a \in CreditAmounts :
       Invoke(p, [MkCall("add_to_balance", u, a) EXCEPT !.obs = BalanceOf(users, u)])
  \/ /\ pc[p] = "add_to_balance"
     /\ ExecWrite(p, SqlAddBalance(users, call[p].u, call[p].amt), transactions,
                  "add_to_balance:commit")
     /\ loc' = [loc EXCEPT ![p].rowcount = RowCount(users, call[p].u)]
  \/ /\ pc[p] = "add_to_balance"
     /\ Timeout(p, RetBool(FALSE))
  \/ /\ pc[p] = "add_to_balance:commit"
     /\ Commit
     /\ Return(p, RetBool(loc[p].rowcount > 0))

adjust_user_balance(p) ==
  \/ \E u \in UserIds, d \in AdjustDeltas :
       Invoke(p, [MkCall("adjust_user_balance", u, d) EXCEPT !.obs = BalanceOf(users, u)])
  \/ /\ pc[p] = "adjust_user_balance"
     /\ ExecWrite(p, SqlAddBalance(users, call[p].u, call[p].amt), transactions,
                  "adjust_user_balance:commit")
     /\ loc' = [loc EXCEPT ![p].rowcount = RowCount(users, call[p].u)]
  \/ /\ pc[p] = "adjust_user_balance"
     /\ Timeout(p, RetBool(FALSE))
  \/ /\ pc[p] = "adjust_user_balance:commit"
     /\ Commit
     /\ Return(p, RetBool(loc[p].rowcount > 0))

set_balance(p) ==
  \/ \E u \in UserIds, value \in SetValues :
       Invoke(p, [MkCall("set_balance", u, value) EXCEPT !.obs = BalanceOf(users, u)])
  \/ /\ pc[p] = "set_balance"
     /\ ExecWrite(p, SqlSetBalance(users, call[p].u, call[p].amt), transactions,
                  "set_balance:commit")
     /\ loc' = [loc EXCEPT ![p].rowcount = RowCount(users, call[p].u)]
  \/ /\ pc[p] = "set_balance"
     /\ Timeout(p, RetBool(FALSE))
  \/ /\ pc[p] = "set_balance:commit"
     /\ Commit
     /\ Return(p, RetBool(loc[p].rowcount > 0))

deduct_from_balance(p) ==
  \/ \E u \in UserIds, a \in DebitAmounts :
       Invoke(p, [MkCall("deduct_from_balance", u, a) EXCEPT !.obs = BalanceOf(users, u)])
  \/ /\ pc[p] = "deduct_from_balance"          \* if amount <= 0: return True
     /\ NonPositive(call[p].amt)
     /\ Return(p, RetBool(TRUE))
     /\ UNCHANGED db
  \/ /\ pc[p] = "deduct_from_balance"          \* BEGIN IMMEDIATE; SELECT; rollback
     /\ ~NonPositive(call[p].amt)
     /\ LockFree(p)
     /\ ~Sufficient(BalanceOf(users, call[p].u), call[p].amt)
     /\ Return(p, RetBool(FALSE))
     /\ UNCHANGED db
  \/ /\ pc[p] = "deduct_from_balance"          \* BEGIN IMMEDIATE; SELECT; UPDATE
     /\ ~NonPositive(call[p].amt)
     /\ Sufficient(BalanceOf(users, call[p].u), call[p].amt)
     /\ ExecWrite(p, SqlAddBalance(users, call[p].u, -call[p].amt), transactions,
                  "deduct_from_balance:commit")
     /\ UNCHANGED loc
  \/ /\ pc[p] = "deduct_from_balance"          \* BEGIN IMMEDIATE times out
     /\ ~NonPositive(call[p].amt)
     /\ Timeout(p, RetBool(FALSE))
  \/ /\ pc[p] = "deduct_from_balance:commit"
     /\ Commit
     /\ Return(p, RetBool(TRUE))

add_to_referral_balance(p) ==
  \/ \E u \in UserIds, a \in CreditAmounts :
       Invoke(p, [MkCall("add_to_referral_balance", u, a)
                    EXCEPT !.obs = ReferralBalanceOf(users, u)])
  \/ /\ pc[p] = "add_to_referral_balance"
     /\ ExecWrite(p, SqlAddReferralBalance(users, call[p].u, call[p].amt), transactions,
                  "add_to_referral_balance:commit")
     /\ UNCHANGED loc
  \/ /\ pc[p] = "add_to_referral_balance"
     /\ Timeout(p, RetNone)
  \/ /\ pc[p] = "add_to_referral_balance:commit"
     /\ Commit
     /\ Return(p, RetNone)

deduct_from_referral_balance(p) ==
  \/ \E u \in UserIds, a \in DebitAmounts :
       Invoke(p, [MkCall("deduct_from_referral_balance", u, a)
                    EXCEPT !.obs = ReferralBalanceOf(users, u)])
  \/ /\ pc[p] = "deduct_from_referral_balance"
     /\ NonPositive(call[p].amt)
     /\ Return(p, RetBool(TRUE))
     /\ UNCHANGED db
  \/ /\ pc[p] = "deduct_from_referral_balance"
     /\ ~NonPositive(call[p].amt)
     /\ LockFree(p)
     /\ ~Sufficient(ReferralBalanceOf(users, call[p].u), call[p].amt)
     /\ Return(p, RetBool(FALSE))
     /\ UNCHANGED db
  \/ /\ pc[p] = "deduct_from_referral_balance"
     /\ ~NonPositive(call[p].amt)
     /\ Sufficient(ReferralBalanceOf(users, call[p].u), call[p].amt)
     /\ ExecWrite(p, SqlAddReferralBalance(users, call[p].u, -call[p].amt), transactions,
                  "deduct_from_referral_balance:commit")
     /\ UNCHANGED loc
  \/ /\ pc[p] = "deduct_from_referral_balance"
     /\ ~NonPositive(call[p].amt)
     /\ Timeout(p, RetBool(FALSE))
  \/ /\ pc[p] = "deduct_from_referral_balance:commit"
     /\ Commit
     /\ Return(p, RetBool(TRUE))

\* ------------------------------------------------------------- referral lifetime earnings
set_referral_balance_all(p) ==
  \/ \E u \in UserIds, value \in SetValues :
       Invoke(p, [MkCall("set_referral_balance_all", u, value)
                    EXCEPT !.obs = users[u].referral_balance_all])
  \/ /\ pc[p] = "set_referral_balance_all"
     /\ ExecWrite(p, SqlSetReferralBalanceAll(users, call[p].u, call[p].amt), transactions,
                  "set_referral_balance_all:commit")
     /\ UNCHANGED loc
  \/ /\ pc[p] = "set_referral_balance_all"
     /\ Timeout(p, RetNone)
  \/ /\ pc[p] = "set_referral_balance_all:commit"
     /\ Commit
     /\ Return(p, RetNone)

add_to_referral_balance_all(p) ==
  \/ \E u \in UserIds, a \in CreditAmounts :
       Invoke(p, [MkCall("add_to_referral_balance_all", u, a)
                    EXCEPT !.obs = users[u].referral_balance_all])
  \/ /\ pc[p] = "add_to_referral_balance_all"
     /\ ExecWrite(p, SqlAddReferralBalanceAll(users, call[p].u, call[p].amt), transactions,
                  "add_to_referral_balance_all:commit")
     /\ UNCHANGED loc
  \/ /\ pc[p] = "add_to_referral_balance_all"
     /\ Timeout(p, RetNone)
  \/ /\ pc[p] = "add_to_referral_balance_all:commit"
     /\ Commit
     /\ Return(p, RetNone)

\* ------------------------------------------------------------- referral settlement
\* The write lock is held by another connection until the busy timeout ends in a
\* function that returns nothing: the error is logged and the caller goes on.
TimeoutGoto(p, l) ==
  /\ lock # 0 /\ lock # p
  /\ Goto(p, l)
  /\ UNCHANGED <<db, call, loc, res, ncalls>>

\* conn.commit() of a function that returns nothing; the caller goes on.
CommitGoto(p, l) ==
  /\ Commit
  /\ Goto(p, l)
  /\ UNCHANGED <<call, loc, res, ncalls>>

\* Referral Settlement's credit path: the reward goes to the referrer's referral
\* balance and lifetime earnings through the ledger's two functions,
\* add_to_referral_balance(u, a) and then add_to_referral_balance_all(u, a).
credit_referral_reward(p) ==
  \/ \E u \in UserIds, a \in RewardAmounts :
       Invoke(p, [MkCall("credit_referral_reward", u, a)
                    EXCEPT !.obs = ReferralBalanceOf(users, u)])
  \/ /\ pc[p] = "credit_referral_reward"                 \* add_to_referral_balance
     /\ ExecWrite(p, SqlAddReferralBalance(users, call[p].u, call[p].amt), transactions,
                  "credit_referral_reward:commit")
     /\ UNCHANGED loc
  \/ /\ pc[p] = "credit_referral_reward"
     /\ TimeoutGoto(p, "credit_referral_reward:all")
  \/ /\ pc[p] = "credit_referral_reward:commit"
     /\ CommitGoto(p, "credit_referral_reward:all")
  \/ /\ pc[p] = "credit_referral_reward:all"             \* add_to_referral_balance_all
     /\ ExecWrite(p, SqlAddReferralBalanceAll(users, call[p].u, call[p].amt), transactions,
                  "credit_referral_reward:all:commit")
     /\ UNCHANGED loc
  \/ /\ pc[p] = "credit_referral_reward:all"
     /\ Timeout(p, RetNone)
  \/ /\ pc[p] = "credit_referral_reward:all:commit"
     /\ Commit
     /\ Return(p, RetNone)

\* The start bonus of policy fixed_start_referrer: the caller reads the referred
\* user's row (get_user), and when the user has a referrer and the flag
\* referral_start_bonus_received is unset it credits the referrer
\* (add_to_referral_balance) and sets the flag (set_referral_start_bonus_received).
\* It reports whether it found the flag unset.
ReferrerBalanceOf(tbl, u) ==
  IF tbl[u].present /\ tbl[u].referred_by # None /\ tbl[u].referred_by[1] \in UserIds
  THEN ReferralBalanceOf(tbl, tbl[u].referred_by[1]) ELSE 0

PayStartBonusCall(p) ==
  \E u \in UserIds :
    Invoke(p, [MkCall("pay_start_bonus", u, referral_on_start_referrer_amount)
                 EXCEPT !.obs = ReferrerBalanceOf(users, u)])

PayStartBonusCheck(p) ==
  /\ pc[p] = "pay_start_bonus"                          \* get_user(u)
  /\ LET user_data == users[call[p].u]
     IN \/ /\ \/ ~user_data.present
              \/ user_data.referred_by = None
              \/ user_data.referral_start_bonus_received
           /\ Return(p, RetBool(FALSE))
           /\ UNCHANGED db
        \/ /\ user_data.present
           /\ user_data.referred_by # None
           /\ ~user_data.referral_start_bonus_received
           /\ loc' = [loc EXCEPT ![p].ref = user_data.referred_by]
           /\ Goto(p, "pay_start_bonus:credit")
           /\ UNCHANGED <<db, call, res, ncalls>>

PayStartBonusCredit(p) ==
  \/ /\ pc[p] = "pay_start_bonus:credit"                \* add_to_referral_balance
     /\ ExecWrite(p, SqlAddReferralBalance(users, loc[p].ref[1], call[p].amt), transactions,
                  "pay_start_bonus:credit:commit")
     /\ UNCHANGED loc
  \/ /\ pc[p] = "pay_start_bonus:credit:commit"
     /\ CommitGoto(p, "pay_start_bonus:flag")

PayStartBonusFlag(p) ==
  \/ /\ pc[p] = "pay_start_bonus:flag"                  \* set_referral_start_bonus_received
     /\ ExecWrite(p, SqlSetStartBonusReceived(users, call[p].u), transactions,
                  "pay_start_bonus:flag:commit")
     /\ UNCHANGED loc
  \/ /\ pc[p] = "pay_start_bonus:flag:commit"
     /\ Commit
     /\ Return(p, RetBool(TRUE))

\* Either ledger call finds the write lock held until the busy timeout ends.
PayStartBonusBusy(p) ==
  \/ /\ pc[p] = "pay_start_bonus:credit"
     /\ TimeoutGoto(p, "pay_start_bonus:flag")
  \/ /\ pc[p] = "pay_start_bonus:flag"
     /\ Timeout(p, RetBool(TRUE))

pay_start_bonus(p) ==
  \/ PayStartBonusCall(p)
  \/ PayStartBonusCheck(p)
  \/ PayStartBonusCredit(p)
  \/ PayStartBonusFlag(p)
  \/ PayStartBonusBusy(p)

\* ------------------------------------------------------------- transaction recorder
create_pending_transaction(p) ==
  \/ \E pid \in PaymentIds, u \in UserIds, m \in MetaDicts :
       Invoke(p, [MkCall("create_pending_transaction", u, 1)
                    EXCEPT !.pid = Some(pid), !.meta = m,
                           !.obs = ObsResolved(transactions, Some(pid))])
  \/ /\ pc[p] = "create_pending_transaction"
     /\ InsertAllowed(transactions, None, call[p].pid)
     /\ ExecWrite(p, users,
                  SqlInsertPending(transactions, call[p].pid, call[p].u, call[p].amt,
                                   call[p].meta),
                  "create_pending_transaction:commit")
     /\ loc' = [loc EXCEPT ![p].lastrowid = InsertId(transactions, None)]
  \/ /\ pc[p] = "create_pending_transaction"     \* sqlite3.IntegrityError
     /\ LockFree(p)
     /\ ~InsertAllowed(transactions, None, call[p].pid)
     /\ Return(p, RetInt(0))
     /\ UNCHANGED db
  \/ /\ pc[p] = "create_pending_transaction"
     /\ Timeout(p, RetInt(0))
  \/ /\ pc[p] = "create_pending_transaction:commit"
     /\ Commit
     /\ Return(p, RetInt(loc[p].lastrowid))

find_and_complete_ton_transaction(p) ==
  \/ \E pid \in PaymentIds, t \in TonAmounts :
       Invoke(p, [MkCall("find_and_complete_ton_transaction", 0, t)
                    EXCEPT !.pid = Some(pid), !.obs = ObsResolved(transactions, Some(pid))])
  \/ /\ pc[p] = "find_and_complete_ton_transaction"     \* if not transaction: return None
     /\ SelectPending(transactions, call[p].pid[1]) = {}
     /\ Return(p, RetNone)
     /\ UNCHANGED db
  \/ /\ pc[p] = "find_and_complete_ton_transaction"     \* transaction = cursor.fetchone()
     /\ SelectPending(transactions, call[p].pid[1]) # {}
     /\ LET transaction == CHOOSE r \in SelectPending(transactions, call[p].pid[1]) : TRUE
        IN loc' = [loc EXCEPT ![p].meta = transaction.metadata]
     /\ Goto(p, "find_and_complete_ton_transaction:update")
     /\ UNCHANGED <<db, call, res, ncalls>>
  \/ /\ pc[p] = "find_and_complete_ton_transaction:update"
     /\ ExecWrite(p, users, SqlCompleteTon(transactions, call[p].pid[1], call[p].amt),
                  "find_and_complete_ton_transaction:commit")
     /\ UNCHANGED loc
  \/ /\ pc[p] = "find_and_complete_ton_transaction:update"
     /\ Timeout(p, RetNone)
  \/ /\ pc[p] = "find_and_complete_ton_transaction:commit"
     /\ Commit
     /\ Return(p, RetDict(JsonLoads(loc[p].meta)))

log_transaction(p) ==
  \/ \E txid \in TxIdArgs, pid \in {None} \cup {Some(x) : x \in PaymentIds},
        st \in LogStatuses :
       Invoke(p, [MkCall("log_transaction", 1, 1)
                    EXCEPT !.pid = pid, !.txid = txid, !.status = st, !.name = "ann",
                           !.obs = ObsResolved(transactions, pid)])
  \/ /\ pc[p] = "log_transaction"
     /\ InsertAllowed(transactions, call[p].txid, call[p].pid)
     /\ ExecWrite(p, users,
                  SqlInsertLogged(transactions, Some(call[p].name), call[p].txid,
                                  call[p].pid, call[p].u, call[p].status, call[p].amt,
                                  None, None, Some("Balance"), NoText),
                  "log_transaction:commit")
     /\ UNCHANGED loc
  \/ /\ pc[p] = "log_transaction"                \* sqlite3.IntegrityError
     /\ LockFree(p)
     /\ ~InsertAllowed(transactions, call[p].txid, call[p].pid)
     /\ Return(p, RetNone)
     /\ UNCHANGED db
  \/ /\ pc[p] = "log_transaction"
     /\ Timeout(p, RetNone)
  \/ /\ pc[p] = "log_transaction:commit"
     /\ Commit
     /\ Return(p, RetNone)

\* ------------------------------------------------------------- purchase path
\* A payment confirmation: the caller resolves the record with
\* find_and_complete_ton_transaction and, when it got the metadata, books the
\* purchase with update_user_stats(user_id, amount_rub, 1).  The record's user_id
\* and amount_rub never change, so they are read from the table when needed.
settle_payment(p) ==
  \/ \E pid \in PaymentIds, t \in TonAmounts :
       Invoke(p, [MkCall("settle_payment", 0, t)
                    EXCEPT !.pid = Some(pid), !.obs = ObsResolved(transactions, Some(pid))])
  \/ /\ pc[p] = "settle_payment"                        \* if not transaction: return None
     /\ SelectPending(transactions, call[p].pid[1]) = {}
     /\ Return(p, RetNone)
     /\ UNCHANGED db
  \/ /\ pc[p] = "settle_payment"                        \* transaction = cursor.fetchone()
     /\ SelectPending(transactions, call[p].pid[1]) # {}
     /\ LET transaction == CHOOSE r \in SelectPending(transactions, call[p].pid[1]) : TRUE
        IN loc' = [loc EXCEPT ![p].meta = transaction.metadata]
     /\ Goto(p, "settle_payment:update")
     /\ UNCHANGED <<db, call, res, ncalls>>
  \/ /\ pc[p] = "settle_payment:update"
     /\ ExecWrite(p, users, SqlCompleteTon(transactions, call[p].pid[1], call[p].amt),
                  "settle_payment:commit")
     /\ UNCHANGED loc
  \/ /\ pc[p] = "settle_payment:update"
     /\ Timeout(p, RetNone)
  \/ /\ pc[p] = "settle_payment:commit"
     /\ CommitGoto(p, "settle_payment:stats")
  \/ /\ pc[p] = "settle_payment:stats"                  \* update_user_stats
     /\ LET row == CHOOSE r \in transactions : r.payment_id = call[p].pid[1]
        IN ExecWrite(p, SqlUpdateUserStats(users, row.user_id, row.amount_rub, 1),
                     transactions, "settle_payment:stats:commit")
     /\ UNCHANGED loc
  \/ /\ pc[p] = "settle_payment:stats"
     /\ Timeout(p, RetDict(JsonLoads(loc[p].meta)))
  \/ /\ pc[p] = "settle_payment:stats:commit"
     /\ Commit
     /\ Return(p, RetDict(JsonLoads(loc[p].meta)))

\* ------------------------------------------------------------- registration
register_user_if_not_exists(p) ==
  \/ \E u \in UserIds, n \in Usernames, r \in ReferrerArgs :
       Invoke(p, [MkCall("register_user_if_not_exists", u, 0) EXCEPT !.name = n, !.ref = r])
  \/ /\ pc[p] = "register_user_if_not_exists"    \* SELECT referred_by: no row
     /\ ~users[call[p].u].present
     /\ Goto(p, "register_user_if_not_exists:insert")
     /\ UNCHANGED <<db, call, loc, res, ncalls>>
  \/ /\ pc[p] = "register_user_if_not_exists"    \* SELECT referred_by: a row
     /\ users[call[p].u].present
     /\ loc' = [loc EXCEPT ![p].ref = users[call[p].u].referred_by]
     /\ Goto(p, "register_user_if_not_exists:update")
     /\ UNCHANGED <<db, call, res, ncalls>>
  \/ /\ pc[p] = "register_user_if_not_exists:insert"
     /\ ~users[call[p].u].present
     /\ ExecWrite(p, SqlInsertUser(users, call[p].u, call[p].name, call[p].ref),
                  transactions, "register_user_if_not_exists:commit")
     /\ UNCHANGED loc
  \/ /\ pc[p] = "register_user_if_not_exists:insert"   \* telegram_id PRIMARY KEY
     /\ LockFree(p)
     /\ users[call[p].u].present
     /\ Return(p, RetNone)
     /\ UNCHANGED db
  \/ /\ pc[p] = "register_user_if_not_exists:update"
     /\ LET named == SqlSetUsername(users, call[p].u, call[p].name)
        IN ExecWrite(p,
                     IF ShouldBackfill(call[p].ref, loc[p].ref, call[p].u)
                     THEN SqlSetReferredBy(named, call[p].u, call[p].ref[1])
                     ELSE named,
                     transactions, "register_user_if_not_exists:commit")
     /\ UNCHANGED loc
  \/ /\ pc[p] \in {"register_user_if_not_exists:insert",
                   "register_user_if_not_exists:update"}
     /\ Timeout(p, RetNone)
  \/ /\ pc[p] = "register_user_if_not_exists:commit"
     /\ Commit
     /\ Return(p, RetNone)

\* ------------------------------------------------------------- readers
\* A SELECT on a connection of its own: it sees the committed tables.
get_balance(p) ==
  \/ \E u \in UserIds : Invoke(p, MkCall("get_balance", u, 0))
  \/ /\ pc[p] = "get_balance"
     /\ Return(p, RetInt(BalanceOf(users, call[p].u)))
     /\ UNCHANGED db

get_referral_balance(p) ==
  \/ \E u \in UserIds : Invoke(p, MkCall("get_referral_balance", u, 0))
  \/ /\ pc[p] = "get_referral_balance"
     /\ Return(p, RetInt(ReferralBalanceOf(users, call[p].u)))
     /\ UNCHANGED db

get_user(p) ==
  \/ \E u \in UserIds : Invoke(p, MkCall("get_user", u, 0))
  \/ /\ pc[p] = "get_user"
     /\ Return(p, IF users[call[p].u].present THEN RetRow(users[call[p].u]) ELSE RetNone)
     /\ UNCHANGED db

\* ------------------------------------------------------------- administration
ban_user(p) ==
  \/ \E u \in UserIds : Invoke(p, MkCall("ban_user", u, 0))
  \/ /\ pc[p] = "ban_user"
     /\ ExecWrite(p, SqlSetBanned(users, call[p].u, TRUE), transactions, "ban_user:commit")
     /\ UNCHANGED loc
  \/ /\ pc[p] = "ban_user"
     /\ Timeout(p, RetNone)
  \/ /\ pc[p] = "ban_user:commit"
     /\ Commit
     /\ Return(p, RetNone)

unban_user(p) ==
  \/ \E u \in UserIds : Invoke(p, MkCall("unban_user", u, 0))
  \/ /\ pc[p] = "unban_user"
     /\ ExecWrite(p, SqlSetBanned(users, call[p].u, FALSE), transactions, "unban_user:commit")
     /\ UNCHANGED loc
  \/ /\ pc[p] = "unban_user"
     /\ Timeout(p, RetNone)
  \/ /\ pc[p] = "unban_user:commit"
     /\ Commit
     /\ Return(p, RetNone)

delete_user_keys(p) ==
  \/ \E u \in UserIds : Invoke(p, MkCall("delete_user_keys", u, 0))
  \/ /\ pc[p] = "delete_user_keys"
     /\ ExecWrite(p, SqlDeleteUserKeys(users, call[p].u), transactions,
                  "delete_user_keys:commit")
     /\ UNCHANGED loc
  \/ /\ pc[p] = "delete_user_keys"
     /\ Timeout(p, RetNone)
  \/ /\ pc[p] = "delete_user_keys:commit"
     /\ Commit
     /\ Return(p, RetNone)

\* ------------------------------------------------------------- payment gateway client
\* What one HTTP exchange with the gateway can give the client:
\*   client_error  aiohttp.ClientError: no connection, or raise_for_status() on
\*                 a 4xx/5xx answer
\*   exception     any other Exception: the 20 s timeout, a body that is not JSON
\*   array         a JSON body that is not an object (data.get raises
\*                 AttributeError, an Exception)
\*   object        a JSON object; each key may be missing, null or a string
JsonKeys == {"status", "redirect", "transactionId"}
JsonValuesOf(key) ==
  IF key = "status"
  THEN {None, Some("PENDING"), Some("PROCESSING"), Some("CONFIRMED"), Some("CANCELED")}
  ELSE IF key = "redirect" THEN {None, Some("https://pay")}
  ELSE {None, Some("tx-1")}
JsonValues == UNION {JsonValuesOf(key) : key \in JsonKeys}
JsonObjects ==
  {d \in UNION {[K -> JsonValues] : K \in SUBSET JsonKeys} :
     \A key \in DOMAIN d : d[key] \in JsonValuesOf(key)}
NoData == [key \in {} |-> None]
GatewayResponses ==
  {[kind |-> k, data |-> NoData] : k \in {"client_error", "exception", "array"}}
    \cup {[kind |-> "object", data |-> d] : d \in JsonObjects}

\* dict.get(key): the value, None when the key is missing.
DictGet(d, key) == IF key \in DOMAIN d THEN d[key] ELSE None

RetPair(first, second) == [k |-> "pair", b |-> FALSE, n |-> 0, m |-> NoMeta, pair |-> <<first, second>>]

\* check_payment's value for a response: True in the "CONFIRMED" branch, False
\* in the PENDING/PROCESSING branch, the else branch and both except clauses.
CheckPayment_NotPending(response) ==
  IF response.kind = "client_error" THEN FALSE
  ELSE IF response.kind \in {"exception", "array"} THEN FALSE
  ELSE LET status == DictGet(response.data, "status")
       IN IF status \in {Some("PENDING"), Some("PROCESSING")} THEN FALSE
          ELSE TRUE
CheckPayment(response) ==
  IF response.kind = "client_error" THEN FALSE
  ELSE IF response.kind \in {"exception", "array"} THEN FALSE
  ELSE LET status == DictGet(response.data, "status")
       IN IF status = Some("CONFIRMED") THEN TRUE
          ELSE IF status \in {Some("PENDING"), Some("PROCESSING")} THEN FALSE
          ELSE FALSE

\* create_payment's value for a response.
CreatePayment(response) ==
  IF response.kind = "client_error" THEN <<None, None>>
  ELSE IF response.kind \in {"exception", "array"} THEN <<None, None>>
  ELSE LET data == response.data
       IN IF DictGet(data, "status") = Some("PENDING") /\ "redirect" \in DOMAIN data
          THEN <<DictGet(data, "transactionId"), DictGet(data, "redirect")>>
          ELSE <<None, None>>

\* The coroutine is suspended in the HTTP exchange; the answer it gets is kept
\* with the call (obs).
Exchange(p, next) ==
  /\ \E response \in GatewayResponses : call' = [call EXCEPT ![p].obs = response]
  /\ Goto(p, next)
  /\ UNCHANGED <<db, loc, res, ncalls>>

check_payment(p) ==
  \/ Invoke(p, [MkCall("check_payment", 0, 0) EXCEPT !.txid = Some("tx-1")])
  \/ /\ pc[p] = "check_payment"
     /\ Exchange(p, "check_payment:response")
  \/ /\ pc[p] = "check_payment:response"
     /\ Return(p, RetBool(CheckPayment(call[p].obs)))
     /\ UNCHANGED db

create_payment(p) ==
  \/ \E payment_id \in PaymentIds :
       Invoke(p, [MkCall("create_payment", 0, MaxAmt) EXCEPT !.pid = Some(payment_id)])
  \/ /\ pc[p] = "create_payment"
     /\ Exchange(p, "create_payment:response")
  \/ /\ pc[p] = "create_payment:response"
     /\ LET result == CreatePayment(call[p].obs) IN Return(p, RetPair(result[1], result[2]))
     /\ UNCHANGED db

\* ------------------------------------------------------------- initial states
Quiet ==
  /\ wusers = users
  /\ wtransactions = transactions
  /\ lock = 0
  /\ pc = [p \in Procs |-> "idle"]
  /\ call = [p \in Procs |-> NoCall]
  /\ loc = [p \in Procs |-> NoLoc]
  /\ res = [p \in Procs |-> NoRes]
  /\ ncalls = 0

\* An empty store: initialize_db creates the tables.
Init ==
  /\ users = [u \in UserIds |-> NoRow]
  /\ transactions = {}
  /\ Quiet

\* A store holding accounts: user 1 has no money or MaxBal, user 2 is unknown
\* or has MaxBal.
InitAccounts ==
  /\ \E b \in {0, MaxBal}, other \in {NoRow, Account(MaxBal, 0)} :
       users = [u \in UserIds |-> IF u = 1 THEN Account(b, 0) ELSE other]
  /\ transactions = {}
  /\ Quiet

\* User 1 was referred by user 2 or by nobody; user 2 was referred by user 1 or
\* by nobody and has earned nothing or MaxBal.  No start bonus was paid yet.
InitReferred ==
  /\ \E r1 \in {None, Some(2)}, r2 \in {None, Some(1)}, b \in {0, MaxBal} :
       users = [u \in UserIds |->
                  IF u = 1 THEN NewUserRow("ann", r1)
                  ELSE [NewUserRow("bob", r2) EXCEPT !.referral_balance = b]]
  /\ transactions = {}
  /\ Quiet

\* A store holding referral earnings: user 1 has earned nothing or MaxBal, user 2
\* is unknown or has MaxBal.
InitReferralAccounts ==
  /\ \E r \in {0, MaxBal}, other \in {NoRow, Account(0, MaxBal)} :
       users = [u \in UserIds |-> IF u = 1 THEN Account(0, r) ELSE other]
  /\ transactions = {}
  /\ Quiet

\* A store with a member who has used the shop: user 1 holds money on both
\* balances, has spent, used the trial, agreed to the terms, got the start
\* bonus and is banned; the referrer is user 2 or not set.  User 2 is unknown
\* or newly registered.
Member(referrer) ==
  [NewUserRow("ann", referrer) EXCEPT
     !.balance = MaxBal, !.referral_balance = MaxAmt, !.referral_balance_all = MaxBal,
     !.total_spent = MaxBal, !.total_months = 1, !.trial_used = TRUE,
     !.agreed_to_terms = TRUE, !.is_banned = TRUE, !.referral_start_bonus_received = TRUE]
InitMembers ==
  /\ \E r \in {None, Some(2)}, other \in {NoRow, NewUserRow("bob", None)} :
       users = [u \in UserIds |-> IF u = 1 THEN Member(r) ELSE other]
  /\ transactions = {}
  /\ Quiet

NextBalance ==
  \E p \in Procs : add_to_balance(p) \/ adjust_user_balance(p) \/ deduct_from_balance(p)
SpecBalance == InitAccounts /\ [][NextBalance]_vars

NextDebit == \E p \in Procs : deduct_from_balance(p)
SpecDebit == InitAccounts /\ [][NextDebit]_vars

NextTx ==
  \E p \in Procs : \/ create_pending_transaction(p)
                   \/ find_and_complete_ton_transaction(p)
                   \/ log_transaction(p)
SpecTx == Init /\ [][NextTx]_vars

NextReg == \E p \in Procs : register_user_if_not_exists(p)
SpecReg == Init /\ [][NextReg]_vars

NextCreditDebit ==
  \E p \in Procs : \/ add_to_balance(p)
                   \/ add_to_referral_balance(p)
                   \/ deduct_from_balance(p)
                   \/ deduct_from_referral_balance(p)
SpecCreditDebit == InitAccounts /\ [][NextCreditDebit]_vars

NextReferralAll ==
  \E p \in Procs : set_referral_balance_all(p) \/ add_to_referral_balance_all(p)
SpecReferralAll == InitAccounts /\ [][NextReferralAll]_vars

NextReward == \E p \in Procs : credit_referral_reward(p)
SpecReward == InitAccounts /\ [][NextReward]_vars

NextStartBonus == \E p \in Procs : pay_start_bonus(p)
SpecStartBonus == InitReferred /\ [][NextStartBonus]_vars

\* Purchases of user 1 made one after the other: a purchase starts when no other
\* call is running, so no call ever finds the write lock held.
OneAtATime(p) == \A q \in Procs \ {p} : pc[q] = "idle"
NextPurchases ==
  \E p \in Procs :
    /\ OneAtATime(p)
    /\ \/ PayStartBonusCall(p) /\ call'[p].u = 1
       \/ PayStartBonusCheck(p)
       \/ PayStartBonusCredit(p)
       \/ PayStartBonusFlag(p)
SpecPurchases == InitReferred /\ [][NextPurchases]_vars

NextReferralRace ==
  \E p \in Procs : add_to_referral_balance(p) \/ deduct_from_referral_balance(p)
SpecReferralRace == InitReferralAccounts /\ [][NextReferralRace]_vars

NextSettle == \E p \in Procs : create_pending_transaction(p) \/ settle_payment(p)
SpecSettle == InitAccounts /\ [][NextSettle]_vars

NextLedger ==
  \E p \in Procs : \/ register_user_if_not_exists(p)
                   \/ ban_user(p)
                   \/ unban_user(p)
                   \/ delete_user_keys(p)
                   \/ add_to_balance(p)
                   \/ create_pending_transaction(p)
                   \/ find_and_complete_ton_transaction(p)
SpecLedger == Init /\ [][NextLedger]_vars

\* The six balance operations, at most MaxFrameCalls calls in a run.
NextBalanceOps ==
  /\ \E p \in Procs : \/ add_to_balance(p)
                      \/ adjust_user_balance(p)
                      \/ set_balance(p)
                      \/ deduct_from_balance(p)
                      \/ add_to_referral_balance(p)
                      \/ deduct_from_referral_balance(p)
  /\ ncalls' <= MaxFrameCalls
SpecBalanceOps == InitAccounts /\ [][NextBalanceOps]_vars

NextPlatega == \E p \in Procs : check_payment(p) \/ create_payment(p)
SpecPlatega == Init /\ [][NextPlatega]_vars

SpecReRegister == InitMembers /\ [][NextReg]_vars

NextAccount ==
  \E p \in Procs : \/ get_balance(p)
                   \/ get_referral_balance(p)
                   \/ get_user(p)
                   \/ add_to_balance(p)
                   \/ set_balance(p)
                   \/ adjust_user_balance(p)
                   \/ deduct_from_balance(p)
SpecAccount == InitAccounts /\ [][NextAccount]_vars

\* ------------------------------------------------------------- claims
Idle(p) == pc[p] = "idle"
Succeeded(r) == r.ret.k = "bool" /\ r.ret.b
Failed(r) == r.ret.k = "bool" /\ ~r.ret.b
\* Two handlers' last calls have both returned and overlapped in time.
Overlapped(p, q) == p # q /\ Idle(p) /\ Idle(q) /\ q \in res[p].c.conc
\* The process makes its call return in this step.
Returns(p) == pc[p] # "idle" /\ pc'[p] = "idle"

RECURSIVE SumOf(_, _)
SumOf(f, S) == IF S = {} THEN 0 ELSE LET x == CHOOSE y \in S : TRUE IN f[x] + SumOf(f, S \ {x})

\* Two overlapping debits of one user, q's started first: the balance observed
\* before either ran is the one q's call saw when it was made.
DebitPair(p, q) ==
  /\ Overlapped(p, q) /\ q \in res[p].c.after
  /\ res[p].c.op = "deduct_from_balance" /\ res[q].c.op = "deduct_from_balance"
  /\ res[p].c.u = res[q].c.u

\* C1: of two concurrent deduct_from_balance calls on one user whose amounts sum
\* to more than the balance observed before either ran, at most one returns True;
\* and when each amount alone is covered and no other call was made, exactly one
\* returns True and the final balance is the observed one less that amount
\* (balance 100, two debits of 60: one True, one False, 40 left).
C1_ConcurrentDebits ==
  \A p, q \in Procs :
    (DebitPair(p, q) /\ res[p].c.amt + res[q].c.amt > res[q].c.obs) =>
      /\ ~(Succeeded(res[p]) /\ Succeeded(res[q]))
      /\ (/\ res[p].c.amt <= res[q].c.obs
          /\ res[q].c.amt <= res[q].c.obs
          /\ ncalls = 2) =>
            \/ /\ Succeeded(res[p]) /\ Failed(res[q])
               /\ users[res[p].c.u].balance = res[q].c.obs - res[p].c.amt
            \/ /\ Succeeded(res[q]) /\ Failed(res[p])
               /\ users[res[p].c.u].balance = res[q].c.obs - res[q].c.amt

\* C1 witness: two overlapping debits of MaxAmt each from a balance of MaxBal,
\* which covers one but not both; the later one won.
C1_Witness ==
  \E p, q \in Procs :
    /\ DebitPair(p, q)
    /\ res[p].c.amt = MaxAmt /\ res[q].c.amt = MaxAmt /\ res[q].c.obs = MaxBal
    /\ MaxAmt + MaxAmt > MaxBal
    /\ Succeeded(res[p]) /\ Failed(res[q])
    /\ users[res[p].c.u].balance = MaxBal - MaxAmt

\* The delta a successful call applies to the spendable balance: a credit or an
\* adjustment adds its amount, a debit of a positive amount subtracts it (a debit
\* of a non-positive amount succeeds without applying anything).
Delta(c) ==
  CASE c.op = "add_to_balance" -> c.amt
    [] c.op = "adjust_user_balance" -> c.amt
    [] c.op = "deduct_from_balance" -> IF c.amt > 0 THEN -c.amt ELSE 0
    [] OTHER -> 0

\* C3: no lost update. In every step the committed spendable balance of every
\* user changes by exactly the deltas of the calls on that user that return
\* success in that step; so over any interleaving of add_to_balance,
\* adjust_user_balance and deduct_from_balance the final balance is the initial
\* balance plus the deltas of the calls that reported success.
C3_NoLostUpdate ==
  [][\A u \in UserIds :
       BalanceOf(users', u) - BalanceOf(users, u) =
         SumOf([p \in Procs |->
                  IF Returns(p) /\ res'[p].c.u = u /\ Succeeded(res'[p])
                  THEN Delta(res'[p].c) ELSE 0], Procs)]_vars

\* C3 witness: a credit or adjustment and a debit of the same user overlapped,
\* both reported success, and the balance holds both deltas.
C3_Witness ==
  \E p, q \in Procs :
    /\ Overlapped(p, q) /\ ncalls = 2
    /\ res[p].c.u = res[q].c.u
    /\ res[p].c.op \in {"add_to_balance", "adjust_user_balance"}
    /\ res[q].c.op = "deduct_from_balance" /\ res[q].c.amt > 0
    /\ Succeeded(res[p]) /\ Succeeded(res[q])
    /\ users[res[p].c.u].balance = res[q].c.obs + res[p].c.amt - res[q].c.amt

\* C4: over credit and debit-if-sufficient calls alone, neither balance of any
\* account is ever negative.
C4_NoNegativeBalance ==
  \A u \in UserIds : users[u].balance >= 0 /\ users[u].referral_balance >= 0

\* C2: of two concurrent find_and_complete_ton_transaction calls for one
\* payment_id at most one returns the metadata (effects the transition); the
\* other returns None.
C2_SingleResolution ==
  \A p, q \in Procs :
    (/\ Overlapped(p, q)
     /\ res[p].c.op = "find_and_complete_ton_transaction"
     /\ res[q].c.op = "find_and_complete_ton_transaction"
     /\ res[p].c.pid = res[q].c.pid) =>
      ~(res[p].ret.k = "dict" /\ res[q].ret.k = "dict")

\* C5: a find_and_complete_ton_transaction call made when the record of its
\* payment_id is no longer pending (resolved by an earlier call, or inserted with
\* another status) changes no transaction record in any of its steps and returns
\* None.
C5_ResolveOnlyPending ==
  [][\A p \in Procs :
       (/\ call[p].op = "find_and_complete_ton_transaction"
        /\ call[p].obs = 1
        /\ pc'[p] # pc[p]) =>
         /\ transactions' = transactions
         /\ Returns(p)
         /\ res'[p].ret = RetNone]_vars

\* C5 witness: a resolve call made after the record was paid with another TON
\* amount has returned None, and the record still holds the first amount.
C5_Witness ==
  \E p \in Procs : \E r \in transactions :
    /\ Idle(p)
    /\ res[p].c.op = "find_and_complete_ton_transaction"
    /\ res[p].c.obs = 1
    /\ res[p].ret = RetNone
    /\ res[p].c.pid = Some(r.payment_id)
    /\ r.status = "paid"
    /\ r.amount_currency # None /\ r.amount_currency # Some(res[p].c.amt)

\* The INSERT statement of create_pending_transaction or log_transaction runs.
AtInsert(p) ==
  /\ pc[p] \in {"create_pending_transaction", "log_transaction"}
  /\ pc'[p] # pc[p]

\* C6: no two transaction records share a payment_id; and an insert (by
\* create_pending_transaction or log_transaction) of a payment_id that exists
\* changes no record and returns at once, create_pending_transaction with 0.
C6_DuplicatePaymentIdRejected ==
  /\ [](\A r1, r2 \in transactions : r1.payment_id = r2.payment_id => r1 = r2)
  /\ [][\A p \in Procs :
          (AtInsert(p) /\ call[p].pid # None /\ PidExists(transactions, call[p].pid[1])) =>
            /\ transactions' = transactions
            /\ Returns(p)
            /\ call[p].op = "create_pending_transaction" => res'[p].ret = RetInt(0)]_vars

\* C6 witness: create_pending_transaction returned 0 for a payment_id whose
\* record, created for the other user, is in the table.
C6_Witness ==
  \E p \in Procs : \E r \in transactions :
    /\ Idle(p)
    /\ res[p].c.op = "create_pending_transaction"
    /\ res[p].ret = RetInt(0)
    /\ res[p].c.pid = Some(r.payment_id)
    /\ r.user_id # res[p].c.u

\* C7: a record whose status is not pending keeps that status in every step.
C7_StatusMonotonic ==
  [][\A r \in transactions :
       r.status # "pending" =>
         \E r2 \in transactions' :
           r2.transaction_id = r.transaction_id /\ r2.status = r.status]_vars

\* C7 witness: a record is paid, and a create_pending_transaction or
\* log_transaction call for its payment_id, made after it was resolved, has run.
C7_Witness ==
  \E p \in Procs : \E r \in transactions :
    /\ Idle(p)
    /\ res[p].c.op \in {"create_pending_transaction", "log_transaction"}
    /\ res[p].c.obs = 1
    /\ res[p].c.pid = Some(r.payment_id)
    /\ r.status = "paid"

\* C8: every record's status is one of pending, paid, failed.
C8_ClosedEnumeration ==
  \A r \in transactions : r.status \in {"pending", "paid", "failed"}

\* C9: no user's referred_by is the user's own telegram_id.
C9_NoSelfReferral ==
  \A u \in UserIds : users[u].present => users[u].referred_by # Some(u)

\* C10: once a user's referred_by holds a referrer, no step changes it.
C10_ReferrerSetOnce ==
  [][\A u \in UserIds :
       (users[u].present /\ users[u].referred_by # None) =>
         users'[u].referred_by = users[u].referred_by]_vars

\* C11: referral_balance_all never decreases: no step takes it from a value v
\* to a value smaller than v.
C11_LifetimeEarningsMonotonic ==
  [][\A u \in UserIds :
       users'[u].referral_balance_all >= users[u].referral_balance_all]_vars

\* C12: a reward credit moves referral_balance and referral_balance_all together:
\* starting from equal values and with reward credits alone, every committed
\* state (what a concurrent reader sees, and what a failure between steps leaves)
\* has the two equal.
C12_RewardAtomic ==
  \A u \in UserIds : users[u].referral_balance = users[u].referral_balance_all

\* C13: of two attempts to pay the start bonus for one referred user, at most
\* one finds the flag unset, and the referrer is credited the bonus at most once.
C13_StartBonusGated ==
  \A p, q \in Procs :
    (/\ p # q /\ Idle(p) /\ Idle(q)
     /\ res[p].c.op = "pay_start_bonus" /\ res[q].c.op = "pay_start_bonus"
     /\ res[p].c.u = res[q].c.u
     /\ ncalls = 2) =>
      /\ ~(Succeeded(res[p]) /\ Succeeded(res[q]))
      /\ q \in res[p].c.after =>
           ReferrerBalanceOf(users, res[p].c.u) <= res[q].c.obs + referral_on_start_referrer_amount

C15_NegativeCreditRejected ==
  [][\A p \in Procs :
       (/\ call[p].op \in {"add_to_balance", "add_to_referral_balance"}
        /\ call[p].amt < 0
        /\ pc'[p] # pc[p]) =>
         /\ users' = users /\ wusers' = wusers
         /\ Returns(p)
         /\ Failed(res'[p])]_vars

\* C16: a debit that does not succeed performs no mutation: the only step of a
\* deduct_from_balance or deduct_from_referral_balance call that changes the
\* committed users table is the one that returns True, and the step that returns
\* False changes nothing and leaves no write transaction of the call open.
C16_FailedDebitNoMutation ==
  [][\A p \in Procs :
       (/\ call[p].op \in {"deduct_from_balance", "deduct_from_referral_balance"}
        /\ pc'[p] # pc[p]) =>
         /\ users' # users => (Returns(p) /\ Succeeded(res'[p]))
         /\ (Returns(p) /\ Failed(res'[p])) =>
              (users' = users /\ lock' = lock /\ lock # p)]_vars

\* C16 witness: a debit the balance covered all along returned False because the
\* store was locked by a concurrent credit; the balance holds the credit alone.
C16_Witness ==
  \E p, q \in Procs :
    /\ Overlapped(p, q) /\ q \in res[p].c.after /\ ncalls = 2
    /\ res[p].c.op = "deduct_from_balance" /\ res[q].c.op = "add_to_balance"
    /\ res[p].c.u = res[q].c.u
    /\ res[p].c.amt > 0 /\ res[p].c.amt <= res[q].c.obs /\ res[q].c.amt > 0
    /\ Failed(res[p]) /\ Succeeded(res[q])
    /\ users[res[p].c.u].balance = res[q].c.obs + res[q].c.amt

\* C17: the caller of find_and_complete_ton_transaction can tell "no record with
\* that payment_id" from "the record was already resolved": a call made when the
\* record was resolved and a call for a payment_id that has no record return
\* different values.
C17_DistinctOutcomes ==
  \A p, q \in Procs :
    (/\ Idle(p) /\ Idle(q)
     /\ res[p].c.op = "find_and_complete_ton_transaction"
     /\ res[q].c.op = "find_and_complete_ton_transaction"
     /\ res[p].c.obs = 1
     /\ ~PidExists(transactions, res[q].c.pid[1])) =>
      res[p].ret # res[q].ret

\* C18: a payout add_to_referral_balance(u, c) overlapping a withdrawal
\* deduct_from_referral_balance(u, d), d > 0, with no other call made, leaves
\* initial + c - d if the withdrawal returned True and initial + c if it returned
\* False; and of two overlapping withdrawals whose amounts sum to more than the
\* initial referral balance at most one returns True.
C18_ReferralRace ==
  \A p, q \in Procs :
    (/\ Overlapped(p, q) /\ q \in res[p].c.after /\ ncalls = 2
     /\ res[p].c.u = res[q].c.u) =>
      LET initial == res[q].c.obs
          final == users[res[p].c.u].referral_balance
          Race(credit, debit) ==
            (/\ credit.c.op = "add_to_referral_balance"
             /\ debit.c.op = "deduct_from_referral_balance"
             /\ debit.c.amt > 0
             /\ users[credit.c.u].present) =>
              final = initial + credit.c.amt - (IF Succeeded(debit) THEN debit.c.amt ELSE 0)
      IN /\ Race(res[p], res[q])
         /\ Race(res[q], res[p])
         /\ (/\ res[p].c.op = "deduct_from_referral_balance"
             /\ res[q].c.op = "deduct_from_referral_balance"
             /\ res[p].c.amt + res[q].c.amt > initial) =>
              ~(Succeeded(res[p]) /\ Succeeded(res[q]))

\* The values a balance mutation returns when the store answered: True or False
\* from the functions that return a bool, None from add_to_referral_balance.
NormalOutcomes(op) ==
  IF op = "add_to_referral_balance" THEN {RetNone} ELSE {RetBool(TRUE), RetBool(FALSE)}

\* C19: a balance mutation that ends because the write lock stayed held until the
\* busy timeout returns a value that no normal outcome of the function returns.
C19_FailureDistinguishable ==
  [][\A p \in Procs :
       (/\ call[p].op \in {"add_to_balance", "add_to_referral_balance",
                            "deduct_from_balance", "deduct_from_referral_balance"}
        /\ call[p].amt > 0
        /\ lock # 0 /\ lock # p
        /\ Returns(p)) =>
         res'[p].ret \notin NormalOutcomes(call[p].op)]_vars

\* The sum of amount_rub over the user's transactions with status paid.
RECURSIVE SumAmountRub(_)
SumAmountRub(rows) ==
  IF rows = {} THEN 0
  ELSE LET r == CHOOSE x \in rows : TRUE IN r.amount_rub + SumAmountRub(rows \ {r})
PaidSum(u) == SumAmountRub({r \in transactions : r.user_id = u /\ r.status = "paid"})

\* C20: in every quiescent state (no call running) every user's total_spent
\* equals the sum of amount_rub over that user's paid transactions.
C20_ReportingConsistency ==
  (\A p \in Procs : Idle(p)) =>
    \A u \in UserIds : users[u].present => users[u].total_spent = PaidSum(u)

\* C21: no step removes an account or a transaction record: a user id that has
\* a row keeps it, and a payment_id that has a record keeps one.
C21_NeverDeleted ==
  [][/\ \A u \in UserIds : users[u].present => users'[u].present
     /\ \A r \in transactions : PidExists(transactions', r.payment_id)]_vars

\* C21 witness: a registered user was banned and the user's keys were deleted;
\* the account is still there.
C21_Witness ==
  \E p \in Procs :
    /\ Idle(p) /\ ncalls = 3
    /\ res[p].c.op = "delete_user_keys"
    /\ users[res[p].c.u].present
    /\ users[res[p].c.u].is_banned

\* Two handlers registered the same user id in calls that overlapped in time,
\* and these are the only calls made on the (initially empty) store.
RegisteredTogether(p, q) ==
  /\ Overlapped(p, q) /\ ncalls = 2
  /\ res[p].c.op = "register_user_if_not_exists"
  /\ res[q].c.op = "register_user_if_not_exists"
  /\ res[p].c.u = res[q].c.u

\* C22: after two concurrent registrations of one unknown user id the account
\* exists (one row per id), its balances are 0 and its referred_by is the
\* referrer_id one of the two calls passed.
C22_OneRowPerUser ==
  \A p, q \in Procs :
    RegisteredTogether(p, q) =>
      LET row == users[res[p].c.u]
      IN /\ row.present
         /\ row.balance = 0 /\ row.referral_balance = 0 /\ row.referral_balance_all = 0
         /\ row.referred_by \in {res[p].c.ref, res[q].c.ref}

\* C22 witness: the two calls named different referrers; the row holds one.
C22_Witness ==
  \E p, q \in Procs :
    /\ RegisteredTogether(p, q)
    /\ res[p].c.ref # None /\ res[q].c.ref # None
    /\ res[p].c.ref # res[q].c.ref
    /\ users[res[p].c.u].referred_by = res[q].c.ref

\* The one column a balance operation names.
MainBalanceOps == {"add_to_balance", "adjust_user_balance", "set_balance", "deduct_from_balance"}
ReferralBalanceOps == {"add_to_referral_balance", "deduct_from_referral_balance"}
\* The row as it would be with only the named balance taken from the new row.
OnlyBalanceFrom(op, old, new) ==
  IF op \in MainBalanceOps THEN [old EXCEPT !.balance = new.balance]
  ELSE [old EXCEPT !.referral_balance = new.referral_balance]

\* C23: a step that changes the users table is the commit of one balance
\* operation for a user u; it leaves every other user's row as it was and, in
\* u's row, every column but the balance the operation names.
C23_Frame ==
  [][users' # users =>
       \E p \in Procs :
         /\ lock = p /\ Returns(p)
         /\ call[p].op \in MainBalanceOps \cup ReferralBalanceOps
         /\ \A w \in UserIds \ {call[p].u} : users'[w] = users[w]
         /\ users'[call[p].u] = OnlyBalanceFrom(call[p].op, users[call[p].u], users'[call[p].u])]_vars

\* C23 witness: set_balance succeeded for a user who holds referral earnings
\* while another account exists.
C23_Witness ==
  \E p \in Procs :
    /\ Idle(p) /\ res[p].c.op = "set_balance" /\ Succeeded(res[p])
    /\ users[res[p].c.u].balance = res[p].c.amt
    /\ users[res[p].c.u].referral_balance > 0
    /\ \E w \in UserIds \ {res[p].c.u} : users[w].present /\ users[w].balance # res[p].c.amt

\* The gateway reported status CONFIRMED: the exchange gave a JSON object whose
\* "status" is that string.
ReportedConfirmed(response) ==
  /\ response.kind = "object"
  /\ "status" \in DOMAIN response.data
  /\ response.data["status"] = Some("CONFIRMED")

\* C24: check_payment always returns a bool (it never raises), and returns True
\* exactly when the gateway reported status CONFIRMED; every other status, a
\* missing status and every error give False.
C24_CheckPaymentOnlyConfirmed ==
  \A p \in Procs :
    (Idle(p) /\ res[p].c.op = "check_payment") =>
      /\ res[p].ret.k = "bool"
      /\ res[p].ret.b <=> ReportedConfirmed(res[p].c.obs)

\* C24 witness: one check got CONFIRMED and returned True, another got an HTTP
\* error and returned False.
C24_Witness ==
  \E p, q \in Procs :
    /\ Idle(p) /\ Idle(q)
    /\ res[p].c.op = "check_payment" /\ res[q].c.op = "check_payment"
    /\ ReportedConfirmed(res[p].c.obs) /\ Succeeded(res[p])
    /\ res[q].c.obs.kind = "client_error" /\ Failed(res[q])

\* C25: create_payment's pair is never half filled: the transaction id is None
\* exactly when the payment URL is None.
C25_BothOrNeither ==
  \A p \in Procs :
    (Idle(p) /\ res[p].c.op = "create_payment") =>
      (res[p].ret.pair[1] = None <=> res[p].ret.pair[2] = None)

\* C26: the commit of adjust_user_balance(u, delta) adds delta to u's balance
\* whatever its sign and the balance (no sufficiency test) and returns True; for
\* an unknown user it changes nothing, creates no account and returns False.
C26_AdjustUnconditional ==
  [][\A p \in Procs :
       (Returns(p) /\ lock = p /\ call[p].op = "adjust_user_balance") =>
         LET u == call[p].u
         IN IF users[u].present
            THEN /\ users'[u].balance = users[u].balance + call[p].amt
                 /\ res'[p].ret = RetBool(TRUE)
            ELSE /\ users' = users
                 /\ res'[p].ret = RetBool(FALSE)]_vars

\* C26 witness: an adjustment by a negative delta larger than the balance
\* succeeded and the balance is negative.
C26_Witness ==
  \E p \in Procs :
    /\ Idle(p) /\ ncalls = 1
    /\ res[p].c.op = "adjust_user_balance" /\ Succeeded(res[p])
    /\ res[p].c.amt < 0 /\ res[p].c.obs < -res[p].c.amt
    /\ users[res[p].c.u].balance = res[p].c.obs + res[p].c.amt
    /\ users[res[p].c.u].balance < 0

\* The handler's call is a resolution that commits and returns in this step.
Resolves(p) ==
  Returns(p) /\ lock = p /\ call[p].op = "find_and_complete_ton_transaction"
\* The handler's last call created the pending record of this payment_id.
Created(q, pid) ==
  /\ Idle(q) /\ res[q].c.op = "create_pending_transaction"
  /\ res[q].c.pid = pid /\ res[q].ret.k = "int" /\ res[q].ret.n > 0
\* The resolution's effect on the records: the one of its payment_id keeps all
\* columns but the four it sets; every other record is kept as it is.
ResolvedRecord(p) ==
  LET pid == call[p].pid[1]
  IN /\ \A r \in transactions :
          IF r.payment_id = pid
          THEN [r EXCEPT !.status = "paid", !.amount_currency = Some(call[p].amt),
                         !.currency_name = Some("TON"), !.payment_method = Some("TON")]
                 \in transactions'
          ELSE r \in transactions'
     /\ \A r \in transactions' : PidExists(transactions, r.payment_id)

\* C27: a successful resolution of a payment_id whose record was created with
\* metadata m returns a value equal to m, whatever m is, and changes the records
\* as ResolvedRecord says.
C27_RoundTrip ==
  [][\A p \in Procs :
       Resolves(p) =>
         /\ ResolvedRecord(p)
         /\ \A q \in Procs :
              Created(q, call[p].pid) => res'[p].ret = RetDict(res[q].c.meta)]_vars

\* C27 as it holds: the same for every metadata dict whose keys are strings (a
\* dict that JSON represents as it is).
C27_RoundTripStrKeys ==
  [][\A p \in Procs :
       Resolves(p) =>
         /\ ResolvedRecord(p)
         /\ \A q \in Procs :
              (Created(q, call[p].pid) /\ res[q].c.meta.kt = "str") =>
                res'[p].ret = RetDict(res[q].c.meta)]_vars

\* C27 witness: a record created with string-keyed metadata for user u was
\* resolved; the resolution returned that metadata and the record is paid in
\* TON, still with u and its amount_rub.
C27_Witness ==
  \E p, q \in Procs :
    /\ Idle(p) /\ res[p].c.op = "find_and_complete_ton_transaction"
    /\ Created(q, res[p].c.pid) /\ res[q].c.meta.kt = "str"
    /\ res[p].ret = RetDict(res[q].c.meta)
    /\ \E r \in transactions :
         /\ r.payment_id = res[p].c.pid[1]
         /\ r.user_id = res[q].c.u /\ r.amount_rub = res[q].c.amt
         /\ r.status = "paid" /\ r.amount_currency = Some(res[p].c.amt)
         /\ r.currency_name = Some("TON") /\ r.payment_method = Some("TON")
    /\ \E r \in transactions : r.payment_id # res[p].c.pid[1] /\ r.status = "pending"

\* C28: a registration call that commits for a user who already has a row
\* changes no other user's row and, in the user's row, no column but username
\* and referred_by; it changes referred_by only if the call found it unset.
C28_ReRegistrationFrame ==
  [][\A p \in Procs :
       (/\ Returns(p) /\ lock = p
        /\ call[p].op = "register_user_if_not_exists"
        /\ users[call[p].u].present) =>
         LET u == call[p].u
         IN /\ \A w \in UserIds \ {u} : users'[w] = users[w]
            /\ users'[u] = [users[u] EXCEPT !.username = users'[u].username,
                                             !.referred_by = users'[u].referred_by]
            /\ users'[u].referred_by # users[u].referred_by => loc[p].ref = None]_vars

\* C28 witness: the member re-registered under another name with a referrer
\* that was not set before; the ledger columns are as they were.
C28_Witness ==
  \E p \in Procs :
    /\ Idle(p) /\ ncalls = 1
    /\ res[p].c.op = "register_user_if_not_exists" /\ res[p].c.u = 1
    /\ users[1] = [Member(Some(3)) EXCEPT !.username = "bob"]

\* C29: a debit of a non-positive amount takes one step: it returns True and
\* leaves the store (tables, open transaction, write lock) as it is, whoever
\* holds the lock and whether or not the user exists.
C29_NonPositiveDebitNoop ==
  [][\A p \in Procs :
       (/\ call[p].op \in {"deduct_from_balance", "deduct_from_referral_balance"}
        /\ call[p].amt <= 0
        /\ pc'[p] # pc[p]) =>
         /\ Returns(p) /\ res'[p].ret = RetBool(TRUE)
         /\ db' = db]_vars

\* C29 witness: a debit of 0 for an unknown user returned True while another
\* handler held the write lock.
C29_Witness ==
  \E p \in Procs :
    /\ Idle(p) /\ res[p].c.op = "deduct_from_balance" /\ res[p].c.amt = 0
    /\ Succeeded(res[p])
    /\ ~users[res[p].c.u].present
    /\ lock \in res[p].c.conc

\* What a call on an unknown user returns: 0 from the balance readers, None
\* from get_user, False from the credits and from a debit of a positive amount.
UnknownUserResult(c) ==
  CASE c.op \in {"get_balance", "get_referral_balance"} -> RetInt(0)
    [] c.op = "get_user" -> RetNone
    [] c.op \in {"add_to_balance", "set_balance", "adjust_user_balance"} -> RetBool(FALSE)
    [] c.op = "deduct_from_balance" -> RetBool(c.amt <= 0)

\* C30: no step of a call on a user id that has no row gives that id a row, and
\* the call returns: 0 (get_balance, get_referral_balance), no account
\* (get_user), False (add_to_balance, set_balance, adjust_user_balance,
\* deduct_from_balance with a positive amount).
C30_UnknownUser ==
  [][\A p \in Procs :
       (pc'[p] # pc[p] /\ call[p].op # "none" /\ ~users[call[p].u].present) =>
         /\ users' = users
         /\ Returns(p) => res'[p].ret = UnknownUserResult(call[p])]_vars

\* C30 witness: a credit to an unknown user returned False, and a get_user for
\* that id that overlapped no other call returned no account.
C30_Witness ==
  \E p, q \in Procs :
    /\ Idle(p) /\ Idle(q) /\ p # q
    /\ res[p].c.op = "add_to_balance" /\ res[p].c.amt > 0 /\ Failed(res[p])
    /\ res[q].c.op = "get_user" /\ res[q].c.u = res[p].c.u /\ res[q].c.conc = {}
    /\ res[q].ret = RetNone
    /\ ~users[res[p].c.u].present

====
